---- MODULE Spec2Model ----
(***************************************************************************)
(* Model of the content-reader token-to-document pipeline:                 *)
(*   parseInline (src/src/parser/inline.js),                               *)
(*   parseBlock and its helpers, parseTable (src/unnamed/part_001),        *)
(*   parseMarkdownContent (src/src/parser/index.js),                       *)
(*   markdownToProseMirror and the registration of the tokenizer           *)
(*   extensions (src/src/index.js, src/unnamed/part_000).                  *)
(* JavaScript strings are TLA+ strings, arrays are sequences, objects are  *)
(* functions from key strings to values.                                   *)
(***************************************************************************)
EXTENDS Integers, Sequences, FiniteSets, TLC

VARIABLES op, arg, argAfter, ret, extensions

vars == <<op, arg, argAfter, ret, extensions>>

(***************************************************************************)
(* JavaScript values of mixed type (attribute values, title, src, data).   *)
(***************************************************************************)
Str(x) == [t |-> "string", s |-> x, n |-> 0]
Num(k) == [t |-> "number", s |-> "", n |-> k]
NaN == [t |-> "number", s |-> "NaN", n |-> 0]
JsTrue == [t |-> "boolean", s |-> "true", n |-> 1]
JsFalse == [t |-> "boolean", s |-> "false", n |-> 0]
Null == [t |-> "null", s |-> "", n |-> 0]
Undefined == [t |-> "undefined", s |-> "", n |-> 0]
\* an array or object value, identified by its canonical text
Obj(x) == [t |-> "object", s |-> x, n |-> 0]

\* JavaScript truthiness
Truthy(v) ==
    CASE v.t = "string" -> v.s # ""
      [] v.t = "number" -> v.n # 0 /\ v # NaN
      [] v.t = "boolean" -> v = JsTrue
      [] v.t = "object" -> TRUE
      [] OTHER -> FALSE

\* a || b
Or(a, b) == IF Truthy(a) THEN a ELSE b

(***************************************************************************)
(* Objects                                                                 *)
(***************************************************************************)
EmptyObj == [k \in {} |-> Null]

\* o[k], undefined when the key is absent
Get(o, k) == IF k \in DOMAIN o THEN o[k] ELSE Undefined

\* { ...a, ...b }
Spread(a, b) == [k \in (DOMAIN a) \cup (DOMAIN b) |-> IF k \in DOMAIN b THEN b[k] ELSE a[k]]

\* ...(c && { k: v })
Cond(c, k, v) == IF c THEN [x \in {k} |-> v] ELSE EmptyObj

\* the rest object of a destructuring that names keys
Rest(o, keys) == [k \in (DOMAIN o) \ keys |-> o[k]]

RECURSIVE SpreadAll(_)
SpreadAll(objs) ==
    IF objs = <<>> THEN EmptyObj
    ELSE Spread(SpreadAll(SubSeq(objs, 1, Len(objs) - 1)), objs[Len(objs)])

(***************************************************************************)
(* Strings                                                                 *)
(***************************************************************************)
StartsWith(s, p) == Len(s) >= Len(p) /\ SubSeq(s, 1, Len(p)) = p

EndsWith(s, p) == Len(s) >= Len(p) /\ SubSeq(s, Len(s) - Len(p) + 1, Len(s)) = p

\* s.substring(from), from counted from 0
Substring(s, from) == SubSeq(s, from + 1, Len(s))

\* s.substring(from, to)
Slice(s, from, to) == SubSeq(s, from + 1, to)

\* s.indexOf(p, from): 0-based, -1 when absent
IndexOfFrom(s, p, from) ==
    LET hits == {i \in from..(Len(s) - Len(p)) : SubSeq(s, i + 1, i + Len(p)) = p}
    IN IF hits = {} THEN -1 ELSE CHOOSE i \in hits : \A j \in hits : i <= j

IndexOf(s, p) == IndexOfFrom(s, p, 0)

Includes(s, p) == IndexOf(s, p) >= 0

\* s.replace(/p/g, r) for a literal p
RECURSIVE ReplaceAll(_, _, _)
ReplaceAll(s, p, r) ==
    IF Len(s) < Len(p) \/ s = "" THEN s
    ELSE IF StartsWith(s, p) THEN r \o ReplaceAll(Substring(s, Len(p)), p, r)
    ELSE SubSeq(s, 1, 1) \o ReplaceAll(Substring(s, 1), p, r)

\* the characters matched by \s
WhiteSpace == {" ", "\t", "\n", "\r"}

RECURSIVE TrimStart(_)
TrimStart(s) ==
    IF s # "" /\ SubSeq(s, 1, 1) \in WhiteSpace THEN TrimStart(Substring(s, 1)) ELSE s

RECURSIVE TrimEnd(_)
TrimEnd(s) ==
    IF s # "" /\ SubSeq(s, Len(s), Len(s)) \in WhiteSpace
    THEN TrimEnd(SubSeq(s, 1, Len(s) - 1)) ELSE s

Trim(s) == TrimEnd(TrimStart(s))

\* s.split(sep) for a one-character sep
RECURSIVE Split(_, _)
Split(s, sep) ==
    LET i == IndexOf(s, sep)
    IN IF i < 0 THEN <<s>>
       ELSE <<Slice(s, 0, i)>> \o Split(Substring(s, i + 1), sep)

\* parts.join(sep)
RECURSIVE Join(_, _)
Join(parts, sep) ==
    IF parts = <<>> THEN ""
    ELSE IF Len(parts) = 1 THEN parts[1]
    ELSE parts[1] \o sep \o Join(Tail(parts), sep)

UpperCase == "ABCDEFGHIJKLMNOPQRSTUVWXYZ"
LowerCase == "abcdefghijklmnopqrstuvwxyz"
Digits == "0123456789"

\* the characters matched by \w
IsWordChar(c) == Includes(UpperCase, c) \/ Includes(LowerCase, c) \/ Includes(Digits, c) \/ c = "_"

RECURSIVE ToLowerCase(_)
ToLowerCase(s) ==
    IF s = "" THEN ""
    ELSE LET c == SubSeq(s, 1, 1)
             i == IndexOf(UpperCase, c)
         IN (IF i >= 0 THEN SubSeq(LowerCase, i + 1, i + 1) ELSE c) \o ToLowerCase(Substring(s, 1))

\* array.flatMap(f) once f has been applied: concatenation of the results
RECURSIVE Flatten(_)
Flatten(seqs) == IF seqs = <<>> THEN <<>> ELSE Head(seqs) \o Flatten(Tail(seqs))

Range(f) == {f[i] : i \in DOMAIN f}

(***************************************************************************)
(* parseInt(value, 10)                                                     *)
(***************************************************************************)
RECURSIVE LeadingDigits(_)
LeadingDigits(s) ==
    IF s # "" /\ Includes(Digits, SubSeq(s, 1, 1))
    THEN SubSeq(s, 1, 1) \o LeadingDigits(Substring(s, 1)) ELSE ""

RECURSIVE ToNat(_)
ToNat(ds) ==
    IF ds = "" THEN 0
    ELSE ToNat(SubSeq(ds, 1, Len(ds) - 1)) * 10 + IndexOf(Digits, SubSeq(ds, Len(ds), Len(ds)))

ParseInt(v) ==
    IF v.t = "number" THEN v
    ELSE IF v.t # "string" THEN NaN
    ELSE LET s == TrimStart(v.s)
             signed == StartsWith(s, "-") \/ StartsWith(s, "+")
             ds == LeadingDigits(IF signed THEN Substring(s, 1) ELSE s)
         IN IF ds = "" THEN NaN
            ELSE Num((IF StartsWith(s, "-") THEN -1 ELSE 1) * ToNat(ds))

(***************************************************************************)
(* parseInline                                                             *)
(***************************************************************************)
\* the three entity replacements applied to token.text
DecodeEntities(text) ==
    ReplaceAll(ReplaceAll(ReplaceAll(text, "&#39;", "'"), "&quot;", "\""), "&amp;", "&")

\* AddMark with the new mark put first: [mark, ...(node.marks || [])]
AddMarkFirst(node, mark) ==
    Spread(node, [marks |-> <<mark>> \o (IF "marks" \in DOMAIN node THEN node.marks ELSE <<>>)])

\* { ...node, marks: [...(node.marks || []), mark] }
AddMark(node, mark) ==
    Spread(node, [marks |-> (IF "marks" \in DOMAIN node THEN node.marks ELSE <<>>) \o <<mark>>])

AddMarkAll(nodes, mark) == [i \in 1..Len(nodes) |-> AddMark(nodes[i], mark)]

\* token.attrs || {}
AttrsOf(token) == IF "attrs" \in DOMAIN token THEN token.attrs ELSE EmptyObj

\* SpanMark with the mark type textStyle
SpanMarkTextStyle(token) ==
    [type |-> "textStyle", attrs |-> AttrsOf(token)]

\* the span mark built from the token's attribute map
SpanMark(token) ==
    LET attrs == AttrsOf(token)
        className == Get(attrs, "class")
        id == Get(attrs, "id")
        otherAttrs == Rest(attrs, {"class", "id"})
    IN [type |-> "span",
        attrs |-> SpreadAll(<<Cond(Truthy(className), "class", className),
                              Cond(Truthy(id), "id", id),
                              otherAttrs>>)]

\* s.replace(/\bw\b/, "") : the first whole-word occurrence of w is removed
ReplaceFirstWord(s, w) ==
    LET hits == {i \in 0..(Len(s) - Len(w)) :
                    /\ SubSeq(s, i + 1, i + Len(w)) = w
                    /\ (i = 0 \/ ~IsWordChar(SubSeq(s, i, i)))
                    /\ (i + Len(w) = Len(s) \/ ~IsWordChar(SubSeq(s, i + Len(w) + 1, i + Len(w) + 1)))}
    IN IF hits = {} THEN s
       ELSE LET i == CHOOSE h \in hits : \A j \in hits : h <= j
            IN Slice(s, 0, i) \o Substring(s, i + Len(w))

\* token.attrs?.class?.includes("button")
hasButtonClass(token) ==
    LET c == Get(AttrsOf(token), "class")
    IN c.t = "string" /\ Includes(c.s, "button")

KnownLinkKeys == {"variant", "download", "target", "rel", "size", "icon"}

\* EffectiveHref with the button: prefix kept
EffectiveHrefWithPrefix(href) == href

\* hasButtonPrefix ? token.href.substring(7) : token.href
EffectiveHref(href) == IF StartsWith(href, "button:") THEN Substring(href, 7) ELSE href

LinkMark(token) ==
    LET hasButtonPrefix == StartsWith(token.href, "button:")
        isButton == hasButtonPrefix \/ hasButtonClass(token)
        href == EffectiveHref(token.href)
        attrs == AttrsOf(token)
        variant == IF Get(attrs, "variant") = Undefined THEN Str("primary") ELSE attrs["variant"]
        download == Get(attrs, "download")
        target == Get(attrs, "target")
        rel == Get(attrs, "rel")
        size == Get(attrs, "size")
        icon == Get(attrs, "icon")
        otherAttrs == Rest(attrs, KnownLinkKeys)
        rawClass == Get(otherAttrs, "class")
        className ==
            IF Truthy(rawClass)
            THEN LET c == Trim(ReplaceFirstWord(rawClass.s, "button"))
                 IN IF c = "" THEN Undefined ELSE Str(c)
            ELSE rawClass
    IN [type |-> IF isButton THEN "button" ELSE "link",
        attrs |-> SpreadAll(<<
            [href |-> Str(href), title |-> Or(token.title, Null)],
            Cond(isButton, "variant", variant),
            Cond(download # Undefined, "download", download),
            Cond(Truthy(target), "target", target),
            Cond(Truthy(rel), "rel", rel),
            Cond(Truthy(size), "size", size),
            Cond(Truthy(icon), "icon", icon),
            Cond(Truthy(className), "class", className)>>)]

IconLibraries == {"lucide", "heroicons", "phosphor", "tabler", "feather", "icon"}

\* href.match(/^(lucide|heroicons|phosphor|tabler|feather|icon):(.+)$/)
IconMatch(href) ==
    LET i == IndexOf(href, ":")
    IN /\ i >= 0
       /\ Slice(href, 0, i) \in IconLibraries
       /\ Len(href) > i + 1
       /\ ~Includes(href, "\n")

\* IconSrc with the two forms exchanged
IconSrcSwapped(iconLibrary, iconName) == IF iconLibrary = "icon" THEN Null ELSE Str(iconName)

\* src of a named-library icon and of a generic icon: href
IconSrc(iconLibrary, iconName) == IF iconLibrary = "icon" THEN Str(iconName) ELSE Null

\* the role, src, iconLibrary and iconName locals of the image branch
ImageLocals(href) ==
    LET colonIndex == IndexOf(href, ":")
    IN IF IconMatch(href)
       THEN [role |-> Str("icon"),
             src |-> IconSrc(Slice(href, 0, colonIndex), Substring(href, colonIndex + 1)),
             iconLibrary |-> Str(Slice(href, 0, colonIndex)),
             iconName |-> Str(Substring(href, colonIndex + 1))]
       ELSE IF Includes(href, ":") /\ ~StartsWith(href, "http")
       THEN [role |-> Str(Slice(href, 0, colonIndex)),
             src |-> Str(Substring(href, colonIndex + 1)),
             iconLibrary |-> Undefined, iconName |-> Undefined]
       ELSE [role |-> Undefined, src |-> Str(href),
             iconLibrary |-> Undefined, iconName |-> Undefined]

\* FinalRole with the prefix role taking precedence: role || attrRole || "image"
FinalRolePrefixFirst(attrRole, role) == Or(Or(role, attrRole), Str("image"))

\* attrRole || role || "image"
FinalRole(attrRole, role) == Or(Or(attrRole, role), Str("image"))

ImageNode(token) ==
    LET l == ImageLocals(token.href)
        attrs == AttrsOf(token)
        a(k) == Get(attrs, k)
        text == DecodeEntities(token.text)
        tr(k) == Cond(Truthy(a(k)), k, a(k))
        df(k) == Cond(a(k) # Undefined, k, a(k))
        dim(k) == Cond(Truthy(a(k)), k, Or(ParseInt(a(k)), a(k)))
    IN [type |-> "image",
        attrs |-> SpreadAll(<<
            [src |-> l.src,
             caption |-> Or(token.title, Null),
             alt |-> Or(Str(text), Null),
             role |-> FinalRole(a("role"), l.role)],
            Cond(Truthy(l.iconLibrary) /\ l.iconLibrary # Str("icon"), "library", l.iconLibrary),
            Cond(Truthy(l.iconName), "name", l.iconName),
            tr("size"), tr("color"),
            dim("width"), dim("height"),
            tr("loading"), tr("poster"), tr("preview"),
            df("autoplay"), df("muted"), df("loop"), df("controls"),
            tr("fit"), tr("position"),
            tr("class"), tr("id")>>)]

RECURSIVE parseInline(_, _)
parseInline(token, removeNewLine) ==
    LET children == [i \in 1..Len(token.tokens) |-> parseInline(token.tokens[i], removeNewLine)]
    IN
    IF token.type = "text" THEN
        LET raw == IF removeNewLine /\ token.raw # ""
                   THEN ReplaceAll(token.raw, "\n", "") ELSE token.raw
        IN IF raw # "" THEN <<[type |-> "text", text |-> raw]>> ELSE <<>>
    ELSE IF token.type \in {"strong", "em"} THEN
        AddMarkAll(Flatten(children), [type |-> IF token.type = "strong" THEN "bold" ELSE "italic"])
    ELSE IF token.type = "html" THEN <<[type |-> "text", text |-> token.raw]>>
    ELSE IF token.type = "br" THEN <<[type |-> "text", text |-> "\n"]>>
    ELSE IF token.type = "codespan" THEN
        <<[type |-> "text", marks |-> <<[type |-> "code"]>>, text |-> DecodeEntities(token.text)]>>
    ELSE IF token.type = "span" THEN
        IF "tokens" \in DOMAIN token /\ Len(token.tokens) > 0
        THEN AddMarkAll(Flatten(children), SpanMark(token))
        ELSE <<[type |-> "text", marks |-> <<SpanMark(token)>>, text |-> token.text]>>
    ELSE IF token.type = "link" THEN
        <<[type |-> "text", marks |-> <<LinkMark(token)>>, text |-> DecodeEntities(token.text)]>>
    ELSE IF token.type = "image" THEN <<ImageNode(token)>>
    ELSE IF token.raw # "" THEN <<[type |-> "text", text |-> token.raw]>> ELSE <<>>

\* a TypeError leaves parseInline: token.text is read of a token without one
RECURSIVE parseInlineThrows(_, _)
parseInlineThrows(token, removeNewLine) ==
    IF token.type \in {"text", "html", "br"} THEN FALSE
    ELSE IF token.type \in {"strong", "em"} THEN
        \E i \in 1..Len(token.tokens) : parseInlineThrows(token.tokens[i], removeNewLine)
    ELSE IF "text" \notin DOMAIN token THEN TRUE
    ELSE IF token.type = "span" /\ "tokens" \in DOMAIN token THEN
        \E i \in 1..Len(token.tokens) : parseInlineThrows(token.tokens[i], removeNewLine)
    ELSE FALSE

\* the token as parseInline leaves it: the raw of a text token is overwritten
RECURSIVE parseInlineEffect(_, _)
parseInlineEffect(token, removeNewLine) ==
    LET walk == [i \in 1..Len(token.tokens) |->
                    IF \E j \in 1..(i - 1) : parseInlineThrows(token.tokens[j], removeNewLine)
                    THEN token.tokens[i]
                    ELSE parseInlineEffect(token.tokens[i], removeNewLine)]
    IN
    IF token.type = "text" THEN
        IF removeNewLine /\ token.raw # ""
        THEN [token EXCEPT !.raw = ReplaceAll(token.raw, "\n", "")] ELSE token
    ELSE IF token.type \in {"strong", "em"} THEN [token EXCEPT !.tokens = walk]
    ELSE IF token.type = "span" /\ "text" \in DOMAIN token /\ "tokens" \in DOMAIN token
    THEN [token EXCEPT !.tokens = walk]
    ELSE token

(***************************************************************************)
(* Code fences: processCodeInfo, cleanCodeText, parseCodeBlockData         *)
(***************************************************************************)
processCodeInfo(info) ==
    IF info = "" THEN [language |-> Null, tag |-> Null]
    ELSE LET parts == Split(info, ":")
         IN [language |-> Or(Str(parts[1]), Null),
             tag |-> IF Len(parts) >= 2 THEN Or(Str(parts[2]), Null) ELSE Null]

\* line.match(/^\s*/)[0]
RECURSIVE LeadingWhiteSpace(_)
LeadingWhiteSpace(line) ==
    IF line # "" /\ SubSeq(line, 1, 1) \in WhiteSpace
    THEN SubSeq(line, 1, 1) \o LeadingWhiteSpace(Substring(line, 1)) ELSE ""

\* cleanCodeText without the removal of the indent: text.trim()
cleanCodeTextTrimOnly(text) == Trim(text)

cleanCodeText(text) ==
    LET lines == Split(text, "\n")
        indent == LeadingWhiteSpace(lines[1])
        stripped == [i \in 1..Len(lines) |->
                        IF StartsWith(lines[i], indent)
                        THEN Substring(lines[i], Len(indent)) ELSE lines[i]]
    IN Trim(Join(stripped, "\n"))

\* The documents JSON.parse accepts among the code bodies of this model, with
\* their values; JSON.parse throws a SyntaxError on every other body.
JsonDocuments ==
    [x \in {"null", "false", "0", "\"\"", "[1]", "{\"a\": 1}", "{\n  \"a\": 1\n}"} |->
        CASE x = "null" -> Null
          [] x = "false" -> JsFalse
          [] x = "0" -> Num(0)
          [] x = "\"\"" -> Str("")
          [] x = "[1]" -> Obj("[1]")
          [] OTHER -> Obj("{\"a\":1}")]

\* JSON.parse(text): the completion, a value or a thrown SyntaxError
JsonParse(text) ==
    IF Trim(text) \in DOMAIN JsonDocuments
    THEN [threw |-> FALSE, value |-> JsonDocuments[Trim(text)]]
    ELSE [threw |-> TRUE, value |-> Undefined]

\* yaml.load(text) on the code bodies of this model: a JSON document loads to
\* its JSON value, an unclosed flow collection throws a YAMLException, a block
\* mapping loads to an object and any other text is a plain scalar.
YamlLoad(text) ==
    LET c == Trim(text)
    IN IF c = "" THEN [threw |-> FALSE, value |-> Undefined]
       ELSE IF c \in DOMAIN JsonDocuments THEN [threw |-> FALSE, value |-> JsonDocuments[c]]
       ELSE IF c = "~" THEN [threw |-> FALSE, value |-> Null]
       ELSE IF (StartsWith(c, "{") /\ ~EndsWith(c, "}")) \/ (StartsWith(c, "[") /\ ~EndsWith(c, "]"))
       THEN [threw |-> TRUE, value |-> Undefined]
       ELSE IF Includes(c, ": ") THEN [threw |-> FALSE, value |-> Obj(c)]
       ELSE [threw |-> FALSE, value |-> Str(c)]

\* TryParse with a catch block that falls through: undefined, not null
TryParseNoNull(completion) == completion.value

\* try { return parse(text) } catch { return null }
TryParse(completion) == IF completion.threw THEN Null ELSE completion.value

\* parseCodeBlockData without the test of the language: every body is given
\* to JSON.parse
parseCodeBlockDataAnyLanguage(text, language) ==
    IF text = "" THEN Null ELSE TryParse(JsonParse(text))

parseCodeBlockData(text, language) ==
    IF text = "" THEN Null
    ELSE LET lang == ToLowerCase(Or(language, Str("")).s)
         IN IF lang = "json" THEN TryParse(JsonParse(text))
            ELSE IF lang \in {"yaml", "yml"} THEN TryParse(YamlLoad(text))
            ELSE Null

\* the node the tagged branch builds once parseCodeBlockData has returned
TaggedCodeNode(language, tag, rawText, parsedData) ==
    IF parsedData # Null
    THEN [type |-> "dataBlock", attrs |-> [tag |-> tag, data |-> parsedData]]
    ELSE [type |-> "codeBlock",
          attrs |-> [language |-> language, tag |-> tag],
          content |-> <<[type |-> "text", text |-> rawText]>>]

\* UntaggedCodeNode with a tag key set to null
UntaggedCodeNodeWithTag(language, rawText) ==
    [type |-> "codeBlock",
     attrs |-> [language |-> language, tag |-> Null],
     content |-> <<[type |-> "text", text |-> rawText]>>]

\* the node the untagged branch builds
UntaggedCodeNode(language, rawText) ==
    [type |-> "codeBlock",
     attrs |-> [language |-> language],
     content |-> <<[type |-> "text", text |-> rawText]>>]

\* the code branch of parseBlock
CodeNode(token) ==
    LET info == processCodeInfo(token.lang)
        rawText == cleanCodeText(token.text)
    IN IF Truthy(info.tag)
       THEN TaggedCodeNode(info.language, info.tag, rawText,
                           parseCodeBlockData(rawText, info.language))
       ELSE UntaggedCodeNode(info.language, rawText)

(***************************************************************************)
(* Tables: parseTableRow, parseTable                                       *)
(***************************************************************************)
\* cell.tokens || []
CellTokens(cell) == IF "tokens" \in DOMAIN cell THEN cell.tokens ELSE <<>>

\* the alignment a column definition of the separator row stands for
getColumnAlignment(colDef) ==
    IF colDef = "" THEN Null
    ELSE LET trimmed == Trim(colDef)
         IN IF StartsWith(trimmed, ":") /\ EndsWith(trimmed, ":") THEN Str("center")
            ELSE IF EndsWith(trimmed, ":") THEN Str("right")
            ELSE IF StartsWith(trimmed, ":") THEN Str("left")
            ELSE Null

\* AlignmentAt with the first column's alignment for every column
AlignmentAtFirstColumn(alignments, index) ==
    IF 1 \in DOMAIN alignments THEN Or(alignments[1], Null) ELSE Null

\* alignments[index] || null
AlignmentAt(alignments, index) ==
    IF index \in DOMAIN alignments THEN Or(alignments[index], Null) ELSE Null

\* parseTableRow with the last cell of the row left out
parseTableRowShort(row, isHeader, alignments) ==
    [type |-> "tableRow",
     content |-> [index \in 1..(Len(row) - 1) |->
        [type |-> "tableCell",
         attrs |-> [colspan |-> Num(1), rowspan |-> Num(1),
                    align |-> AlignmentAt(alignments, index),
                    header |-> IF isHeader THEN JsTrue ELSE JsFalse],
         content |-> <<[type |-> "paragraph",
                        content |-> Flatten([i \in 1..Len(CellTokens(row[index])) |->
                                        parseInline(CellTokens(row[index])[i], FALSE)])]>>]]]

parseTableRow(row, isHeader, alignments) ==
    [type |-> "tableRow",
     content |-> [index \in 1..Len(row) |->
        [type |-> "tableCell",
         attrs |-> [colspan |-> Num(1), rowspan |-> Num(1),
                    align |-> AlignmentAt(alignments, index),
                    header |-> IF isHeader THEN JsTrue ELSE JsFalse],
         content |-> <<[type |-> "paragraph",
                        content |-> Flatten([i \in 1..Len(CellTokens(row[index])) |->
                                        parseInline(CellTokens(row[index])[i], FALSE)])]>>]]]

parseTable(token) ==
    LET alignments == IF "align" \in DOMAIN token THEN token.align ELSE <<>>
    IN [type |-> "table",
        content |-> <<parseTableRow(token.header, TRUE, alignments)>>
                    \o [r \in 1..Len(token.rows) |-> parseTableRow(token.rows[r], FALSE, alignments)]]

(***************************************************************************)
(* Blocks: parseParagraph, parseBlock                                      *)
(***************************************************************************)
parseParagraph(token) ==
    Flatten([i \in 1..Len(token.tokens) |-> parseInline(token.tokens[i], FALSE)])

\* IsHoisted of the earlier paragraph branch: every image leaves the paragraph
IsHoistedAnyImage(element) ==
    \/ element.type = "image"
    \/ element.type = "inline_child_ref"

\* the test of the hoisting loop: the element leaves the paragraph
IsHoisted(element) ==
    \/ element.type = "image" /\ Get(element.attrs, "role") # Str("icon")
    \/ element.type = "inline_child_ref"

\* HoistLoop without the reset of currentParagraph after a hoisted element
RECURSIVE HoistLoopNoReset(_, _, _, _)
HoistLoopNoReset(content, i, result, cur) ==
    IF i > Len(content)
    THEN IF cur.open THEN Append(result, [type |-> "paragraph", content |-> cur.items])
         ELSE result
    ELSE IF IsHoisted(content[i])
    THEN HoistLoopNoReset(content, i + 1,
                   (IF cur.open
                    THEN Append(result, [type |-> "paragraph", content |-> cur.items])
                    ELSE result) \o <<content[i]>>,
                   cur)
    ELSE HoistLoopNoReset(content, i + 1, result,
                   [open |-> TRUE, items |-> Append(cur.items, content[i])])

\* content.forEach(...) of the paragraph branch from element i on; cur is
\* currentParagraph (open = it is not null) and result the array built so far
RECURSIVE HoistLoop(_, _, _, _)
HoistLoop(content, i, result, cur) ==
    IF i > Len(content)
    THEN IF cur.open THEN Append(result, [type |-> "paragraph", content |-> cur.items])
         ELSE result
    ELSE IF IsHoisted(content[i])
    THEN HoistLoop(content, i + 1,
                   (IF cur.open
                    THEN Append(result, [type |-> "paragraph", content |-> cur.items])
                    ELSE result) \o <<content[i]>>,
                   [open |-> FALSE, items |-> <<>>])
    ELSE HoistLoop(content, i + 1, result,
                   [open |-> TRUE, items |-> Append(cur.items, content[i])])

\* What a call returns, tagged by its kind: null, one node, or an array of
\* nodes (parseInline always returns an array).
ReturnNull == [kind |-> "null"]
ReturnNode(node) == [kind |-> "node", node |-> node]
ReturnArray(nodes) == [kind |-> "array", nodes |-> nodes]
ReturnIndex(index) == [kind |-> "index", index |-> index]

\* the elements Array.prototype.flatMap adds for one callback result
FlatMapItems(r) ==
    CASE r.kind = "null" -> <<Null>>
      [] r.kind = "node" -> <<r.node>>
      [] OTHER -> r.nodes

\* HeadingNode with an id made from the heading text
HeadingNodeWithSlug(token) ==
    [type |-> "heading",
     attrs |-> [level |-> Num(token.depth), id |-> Str(ToLowerCase(token.text))],
     content |-> parseParagraph(token)]

\* the node of the heading branch
HeadingNode(token) ==
    [type |-> "heading",
     attrs |-> [level |-> Num(token.depth), id |-> Null],
     content |-> parseParagraph(token)]

RECURSIVE parseBlock(_)
RECURSIVE parseList(_)

\* The list transformer: a bulletList or orderedList of listItem nodes, each
\* holding the block transformation of the item's child tokens.
parseList(token) ==
    LET item(it) ==
            [type |-> "listItem",
             content |-> Flatten([i \in 1..Len(it.tokens) |->
                            FlatMapItems(parseBlock(
                                IF it.tokens[i].type = "text"
                                THEN [it.tokens[i] EXCEPT !.type = "paragraph"]
                                ELSE it.tokens[i]))])]
        items == [i \in 1..Len(token.items) |-> item(token.items[i])]
    IN IF token.ordered
       THEN [type |-> "orderedList",
             attrs |-> [start |-> Or(token.start, Num(1))],
             content |-> items]
       ELSE [type |-> "bulletList", content |-> items]

parseBlock(token) ==
    IF token.type = "html" /\ StartsWith(token.text, "<!--") THEN ReturnNull
    ELSE IF token.type = "paragraph" THEN
        LET content == parseParagraph(token)
        IN IF Len(content) = 0 THEN ReturnNull
           ELSE ReturnArray(HoistLoop(content, 1, <<>>, [open |-> FALSE, items |-> <<>>]))
    ELSE IF token.type = "heading" THEN ReturnNode(HeadingNode(token))
    ELSE IF token.type = "blockquote" THEN
        ReturnNode([type |-> "blockquote",
                    content |-> Flatten([i \in 1..Len(token.tokens) |->
                                    FlatMapItems(parseBlock(token.tokens[i]))])])
    ELSE IF token.type = "hr" THEN
        ReturnNode([type |-> "divider", attrs |-> [style |-> Str("line"), size |-> Str("normal")]])
    ELSE IF token.type = "code" THEN ReturnNode(CodeNode(token))
    ELSE IF token.type = "list" THEN ReturnNode(parseList(token))
    ELSE IF token.type = "table" THEN ReturnNode(parseTable(token))
    ELSE ReturnNull

\* a TypeError leaves parseBlock
RECURSIVE parseBlockThrows(_)
parseBlockThrows(token) ==
    IF token.type = "html" THEN "text" \notin DOMAIN token
    ELSE IF token.type \in {"paragraph", "heading"} THEN
        \E i \in 1..Len(token.tokens) : parseInlineThrows(token.tokens[i], FALSE)
    ELSE IF token.type = "blockquote" THEN
        \E i \in 1..Len(token.tokens) : parseBlockThrows(token.tokens[i])
    ELSE IF token.type = "table" THEN
        \E row \in {token.header} \cup Range(token.rows) :
            \E c \in 1..Len(row) : \E i \in 1..Len(CellTokens(row[c])) :
                parseInlineThrows(CellTokens(row[c])[i], FALSE)
    ELSE FALSE

\* the token as parseBlock leaves it: every inline token it holds has gone
\* through parseInline with removeNewLine left at its default, false
RECURSIVE parseBlockEffect(_)
parseBlockEffect(token) ==
    LET inline(tokens) == [i \in 1..Len(tokens) |-> parseInlineEffect(tokens[i], FALSE)]
        cell(c) == IF "tokens" \in DOMAIN c THEN [c EXCEPT !.tokens = inline(c.tokens)] ELSE c
        row(r) == [i \in 1..Len(r) |-> cell(r[i])]
    IN
    IF token.type \in {"paragraph", "heading"} THEN [token EXCEPT !.tokens = inline(token.tokens)]
    ELSE IF token.type = "blockquote" THEN
        [token EXCEPT !.tokens = [i \in 1..Len(token.tokens) |-> parseBlockEffect(token.tokens[i])]]
    ELSE IF token.type = "table" THEN
        [token EXCEPT !.header = row(token.header),
                      !.rows = [r \in 1..Len(token.rows) |-> row(token.rows[r])]]
    ELSE token

(***************************************************************************)
(* Document: parseMarkdownContent                                          *)
(***************************************************************************)
\* isEmptyContent of the parser utilities: the content has no node
isEmptyContent(content) == content = <<>>

\* PushedBy with only the first node of an array result pushed
PushedByFirst(r) ==
    CASE r.kind = "null" -> <<>>
      [] r.kind = "node" -> <<r.node>>
      [] OTHER -> IF r.nodes = <<>> THEN <<>> ELSE <<r.nodes[1]>>

\* what one loop iteration pushes onto content
PushedBy(r) ==
    CASE r.kind = "null" -> <<>>
      [] r.kind = "node" -> <<r.node>>
      [] OTHER -> r.nodes

\* the filter callback of the returned content
KeepNode(node) ==
    IF node = Null THEN FALSE
    ELSE IF node.type = "paragraph" /\ isEmptyContent(node.content) THEN FALSE
    ELSE TRUE

RECURSIVE Filter(_)
Filter(nodes) ==
    IF nodes = <<>> THEN <<>>
    ELSE (IF KeepNode(Head(nodes)) THEN <<Head(nodes)>> ELSE <<>>) \o Filter(Tail(nodes))

\* parseMarkdownContent as tokens.flatMap(parseBlock): no test of the result
\* before the push and no filter
parseMarkdownContentFlatMap(tokens) ==
    [type |-> "doc",
     content |-> Flatten([i \in 1..Len(tokens) |-> FlatMapItems(parseBlock(tokens[i]))])]

parseMarkdownContent(tokens) ==
    [type |-> "doc",
     content |-> Filter(Flatten([i \in 1..Len(tokens) |-> PushedBy(parseBlock(tokens[i]))]))]

parseMarkdownContentThrows(tokens) == \E i \in 1..Len(tokens) : parseBlockThrows(tokens[i])

\* the tokens array as parseMarkdownContent leaves it
parseMarkdownContentEffect(tokens) == [i \in 1..Len(tokens) |-> parseBlockEffect(tokens[i])]

(***************************************************************************)
(* Input tokens, as the tokenizer and its image, link and span extensions  *)
(* build them.                                                             *)
(***************************************************************************)
MaxSize == 4        \* token nodes in a nested strong/em/span token
MaxInline == 3      \* inline tokens of a paragraph
MaxCols == 2        \* columns of a table
MaxRows == 1        \* body rows of a table
MaxQuoteDepth == 2  \* nesting of blockquotes
MaxBlocks == 3      \* top-level tokens of a document
MaxLines == 2       \* lines of an indented code body
MaxSrcLen == 4      \* characters of a source text scanned for a link

\* the sequences over S of length lo..hi
RECURSIVE SeqsOfLen(_, _)
SeqsOfLen(S, n) ==
    IF n = 0 THEN {<<>>}
    ELSE {<<x>> \o rest : x \in S, rest \in SeqsOfLen(S, n - 1)}

SeqsBetween(S, lo, hi) == UNION {SeqsOfLen(S, n) : n \in lo..hi}

\* the attribute maps that give each key one of its values or leave it out
\* (the value Undefined)
RECURSIVE AttrMaps(_)
AttrMaps(choices) ==
    IF choices = <<>> THEN {EmptyObj}
    ELSE {Spread(m, Cond(v # Undefined, Head(choices).key, v)) :
            m \in AttrMaps(Tail(choices)), v \in Head(choices).values}

TextToken(raw) == [type |-> "text", raw |-> raw, text |-> raw]
CodespanToken(text) == [type |-> "codespan", raw |-> text, text |-> text]
WrapToken(kind, tokens) == [type |-> kind, raw |-> "", text |-> "", tokens |-> tokens]
SpanToken(text, attrs, tokens) ==
    [type |-> "span", raw |-> "", text |-> text, attrs |-> attrs, tokens |-> tokens]
LinkToken(text, href, title, attrs) ==
    [type |-> "link", raw |-> "", text |-> text, href |-> href, title |-> title,
     attrs |-> attrs, tokens |-> <<>>]
ImageToken(text, href, title, attrs) ==
    [type |-> "image", raw |-> "", text |-> text, href |-> href, title |-> title,
     attrs |-> attrs]

\* nested emphasis: trees of at most MaxSize tokens
NestLeaves ==
    {TextToken("x"), TextToken("a\nb"), CodespanToken("c"),
     SpanToken("s", [class |-> Str("hl")], <<>>)}

Wrappers(forest) ==
    {WrapToken("strong", forest), WrapToken("em", forest),
     SpanToken("", [class |-> Str("note"), id |-> Str("n1")], forest)}

RECURSIVE NestedOfSize(_)
RECURSIVE ForestsOfSize(_)
NestedOfSize(n) ==
    IF n = 1 THEN NestLeaves
    ELSE UNION {Wrappers(f) : f \in ForestsOfSize(n - 1)}

ForestsOfSize(m) ==
    IF m = 0 THEN {<<>>}
    ELSE UNION {{<<t>> \o f : t \in NestedOfSize(k), f \in ForestsOfSize(m - k)} : k \in 1..m}

NestedTokens == UNION {NestedOfSize(n) : n \in 1..MaxSize}

LinkAttrMaps ==
    AttrMaps(<<
        [key |-> "class", values |-> {Undefined, Str("button"), Str("buttons"), Str("radiobutton"),
                                      Str("big button"), Str("button button"), Str("big-button"),
                                      Str("big")}],
        [key |-> "id", values |-> {Undefined, Str("main")}],
        [key |-> "data-x", values |-> {Undefined, Str("1")}],
        [key |-> "variant", values |-> {Undefined, Str("secondary")}],
        [key |-> "download", values |-> {Undefined, JsTrue}],
        [key |-> "target", values |-> {Undefined, Str("_blank")}]>>)

LinkTokens ==
    {LinkToken("Go &amp; see", href, title, attrs) :
        href \in {"https://e.com", "button:https://e.com", "./doc.pdf"},
        title \in {Null, Str("Title")},
        attrs \in LinkAttrMaps}
    \cup {[type |-> "link", raw |-> "", text |-> "t", href |-> href, title |-> Null, tokens |-> <<>>] :
            href \in {"https://e.com", "button:https://e.com"}}

ImageAttrMaps ==
    AttrMaps(<<
        [key |-> "role", values |-> {Undefined, Str(""), Str("hero"), Str("icon"), Str("image")}],
        [key |-> "width", values |-> {Undefined, Str("800"), Str("0"), Str("auto")}],
        [key |-> "class", values |-> {Undefined, Str("featured")}],
        [key |-> "autoplay", values |-> {Undefined, JsTrue}]>>)

ImageHrefs ==
    {"./a.png", "https://e.com/a.png", "video:clip.mp4", "icon:path/i.svg",
     "lucide:home", "heroicons:star", "phosphor:gear", "tabler:x", "feather:eye"}

ImageTokens ==
    {ImageToken(text, href, title, attrs) :
        text \in {"", "Alt"}, href \in ImageHrefs, title \in {Null, Str("Cap")},
        attrs \in ImageAttrMaps}

\* images with width and height attributes: key=value gives a string, a bare
\* key the boolean true
DimensionValues == {Undefined, Str("800"), Str("0"), Str("auto"), Str("12px"), JsTrue}

DimensionImageTokens ==
    {ImageToken("Photo", "./photo.jpg", Str("A beautiful photo"), attrs) :
        attrs \in AttrMaps(<<[key |-> "width", values |-> DimensionValues],
                             [key |-> "height", values |-> DimensionValues],
                             [key |-> "loading", values |-> {Undefined, Str("lazy")}]>>)}

\* tokens of kinds parseInline has no branch for, with and without a text field
OtherInlineTokens ==
    {[type |-> "escape", raw |-> "\\*", text |-> "*"],
     [type |-> "del", raw |-> "~~x~~", text |-> "x", tokens |-> <<TextToken("x")>>],
     [type |-> "del", raw |-> "", text |-> ""],
     [type |-> "checkbox", raw |-> "[x] ", checked |-> TRUE],
     [type |-> "checkbox", raw |-> "", checked |-> FALSE]}

InlineTokens ==
    NestedTokens \cup LinkTokens \cup ImageTokens \cup DimensionImageTokens \cup OtherInlineTokens
    \cup {[type |-> "html", raw |-> "<b>", text |-> "<b>"], [type |-> "br", raw |-> "\n"],
          TextToken("")}

\* paragraphs
PlainImage == ImageToken("Alt", "./a.png", Null, EmptyObj)
IconImage == ImageToken("", "lucide:home", Null, EmptyObj)
GenericIcon == ImageToken("Alt Text", "icon:path/to/image.svg", Str("Caption text"), EmptyObj)

ParagraphInline ==
    {TextToken("a"), TextToken("b"), TextToken(""), PlainImage, IconImage,
     ImageToken("", "./i.svg", Null, [role |-> Str("icon")]),
     ImageToken("", "icon:./i.svg", Null, [role |-> Str("hero")]),
     WrapToken("strong", <<TextToken("c")>>)}

ParagraphToken(tokens) == [type |-> "paragraph", raw |-> "", text |-> "", tokens |-> tokens]

ParagraphTokens == {ParagraphToken(ts) : ts \in SeqsBetween(ParagraphInline, 0, MaxInline)}

HeadingTokens ==
    {[type |-> "heading", raw |-> "", text |-> text, depth |-> d, tokens |-> ts] :
        d \in 1..6, text \in {"", "Main Title"},
        ts \in {<<>>, <<TextToken("Main Title")>>, <<PlainImage>>}}

HtmlComment == [type |-> "html", raw |-> "<!-- c -->", text |-> "<!-- c -->"]

LeafBlockTokens ==
    {[type |-> "hr", raw |-> "---"], HtmlComment,
     [type |-> "html", raw |-> "<div>", text |-> "<div>"],
     [type |-> "space", raw |-> "\n\n"]}

CodeInfos ==
    {"", "javascript", "json", "json:", "json:nav-links", "JSON:nav", "yaml:cfg", "yml:cfg",
     "js:tag", ":tag", "json:a:b"}

CodeTexts ==
    {"null", "false", "0", "\"\"", "[1]", "{\"a\": 1}", "  {\n    \"a\": 1\n  }", "~",
     "{bad", "x: 1", "const x = 1;", "    a\n    b", "", "  \n"}

CodeToken(lang, text) == [type |-> "code", raw |-> "", lang |-> lang, text |-> text]

\* indented code bodies: up to MaxLines lines, with and without indent, blank
\* and with trailing white space
CodeLines == {"", "  ", "a", "  a", "    a", "\ta", "  a "}

IndentedTexts == {Join(lines, "\n") : lines \in SeqsBetween(CodeLines, 1, MaxLines)}

CodeTokens ==
    {CodeToken(lang, text) : lang \in CodeInfos, text \in CodeTexts}
    \cup {CodeToken(lang, text) : lang \in {"", "js:tag"}, text \in IndentedTexts}

\* tables: every row has the header's number of cells, and at most one cell
\* of a row holds something other than plain text
TextCell == [text |-> "a", tokens |-> <<TextToken("a")>>]

Cells ==
    {TextCell,
     [text |-> "", tokens |-> <<PlainImage>>],
     [text |-> "", tokens |-> <<IconImage>>]}

Rows(n) == {r \in SeqsOfLen(Cells, n) : Cardinality({i \in 1..n : r[i] # TextCell}) <= 1}

\* the column definitions of a separator row and the alignments of token.align
ColumnDefinitions == {"---", " :--- ", "---:", ":---:"}

Alignments == {getColumnAlignment(colDef) : colDef \in ColumnDefinitions}

TableTokens ==
    UNION {{[type |-> "table", raw |-> "", align |-> align, header |-> header, rows |-> rows] :
                align \in SeqsOfLen(Alignments, n),
                header \in Rows(n),
                rows \in SeqsBetween(Rows(n), 0, MaxRows)} : n \in 1..MaxCols}

\* blockquotes
QuoteBase ==
    {ParagraphToken(<<TextToken("q")>>), ParagraphToken(<<PlainImage>>),
     ParagraphToken(<<TextToken("a"), PlainImage, TextToken("b")>>),
     ParagraphToken(<<TextToken("")>>), HtmlComment, [type |-> "space", raw |-> "\n\n"]}

BlockquoteToken(tokens) == [type |-> "blockquote", raw |-> "", text |-> "", tokens |-> tokens]

RECURSIVE Blockquotes(_)
Blockquotes(d) ==
    IF d = 1 THEN {BlockquoteToken(ts) : ts \in SeqsBetween(QuoteBase, 1, 2)}
    ELSE Blockquotes(d - 1) \cup {BlockquoteToken(<<b>>) : b \in Blockquotes(d - 1)}

\* lists: items of one text token, the second item of an ordered list with a
\* nested bullet list
ItemText(inline) == [type |-> "text", raw |-> "", text |-> "", tokens |-> inline]

ListItem(tokens) == [type |-> "list_item", raw |-> "", text |-> "", tokens |-> tokens]

ListToken(ordered, start, items) ==
    [type |-> "list", raw |-> "", ordered |-> ordered, start |-> start, items |-> items]

BulletList == ListToken(FALSE, Str(""), <<ListItem(<<ItemText(<<TextToken("i")>>)>>)>>)

ListTokens ==
    {BulletList,
     ListToken(TRUE, Num(3), <<ListItem(<<ItemText(<<TextToken("i")>>)>>),
                          ListItem(<<ItemText(<<WrapToken("em", <<TextToken("j")>>)>>), BulletList>>)>>)}

\* a paragraph with a span, a link, a button, inline code and nested emphasis
MarkedParagraph ==
    ParagraphToken(<<SpanToken("s", [class |-> Str("hl")], <<>>),
                     LinkToken("Go", "https://e.com", Null, EmptyObj),
                     LinkToken("Go", "button:https://e.com", Null, EmptyObj),
                     CodespanToken("c"),
                     WrapToken("strong", <<WrapToken("em", <<TextToken("x")>>)>>)>>)

BlockTokens ==
    ParagraphTokens \cup HeadingTokens \cup LeafBlockTokens \cup CodeTokens
    \cup TableTokens \cup Blockquotes(MaxQuoteDepth) \cup ListTokens \cup {MarkedParagraph}

\* documents: up to MaxBlocks of the blocks of DocBlocks, and the documents of
\* one paragraph of SingleParagraphs or one fence of SingleFences
DocBlocks ==
    {ParagraphToken(<<TextToken("a"), PlainImage, TextToken("b")>>),
     ParagraphToken(<<TextToken("")>>),
     MarkedParagraph,
     BulletList,
     [type |-> "hr", raw |-> "---"],
     HtmlComment,
     [type |-> "heading", raw |-> "", text |-> "", depth |-> 1, tokens |-> <<TextToken("Title")>>],
     CodeToken("json:nav-links", "{bad"),
     BlockquoteToken(<<HtmlComment, ParagraphToken(<<TextToken("q"), PlainImage>>)>>),
     [type |-> "table", raw |-> "", align |-> <<Null>>,
      header |-> <<[text |-> "a", tokens |-> <<TextToken("a")>>]>>,
      rows |-> <<<<[text |-> "", tokens |-> <<PlainImage>>]>>>>]}

SingleParagraphs ==
    {ParagraphToken(<<TextToken("a")>>),
     ParagraphToken(<<IconImage>>),
     ParagraphToken(<<GenericIcon>>),
     ParagraphToken(<<ImageToken("", "icon:i.svg", Null, EmptyObj)>>),
     ParagraphToken(<<ImageToken("Alt", "icon:i.svg", Str("Cap"), [role |-> Str("hero")])>>)}

\* fences without a body, with a body of white space, and with a body
SingleFences ==
    {CodeToken("javascript", ""), CodeToken("", "  \n"), CodeToken("json:nav-links", ""),
     CodeToken("javascript", "const x = 1;"), CodeToken("json:nav-links", "{\"a\": 1}")}

Documents ==
    SeqsBetween(DocBlocks, 0, MaxBlocks)
    \cup {<<p>> : p \in SingleParagraphs} \cup {<<c>> : c \in SingleFences}

\* the token arrays marked.lexer hands to markdownToProseMirror: the documents
\* of at most two blocks
LexedDocuments == {tokens \in Documents : Len(tokens) <= 2}

(***************************************************************************)
(* The tokenizer extensions and their registration                         *)
(***************************************************************************)
createImageExtension == [name |-> "image", level |-> "inline"]

createLinkExtension == [name |-> "link", level |-> "inline"]

createSpanExtension == [name |-> "span", level |-> "inline"]

\* start(src) of the link extension: where the tokenizer may find a link
LinkStart(src) ==
    LET idx == IndexOf(src, "[")
    IN IF idx > 0 /\ SubSeq(src, idx, idx) = "!"
       THEN LET nextIdx == IndexOfFrom(src, "[", idx + 1)
            IN IF nextIdx >= 0 THEN nextIdx ELSE -1
       ELSE idx

\* the source texts the tokenizer hands to start(src)
SourceTexts == UNION {{Join(cs, "") : cs \in SeqsOfLen({"!", "[", "a"}, n)} : n \in 0..MaxSrcLen}

\* getMarkedExtensions of the earlier extension module: image and link only
getMarkedExtensionsWithoutSpan ==
    [extensions |-> <<createImageExtension, createLinkExtension>>]

getMarkedExtensions ==
    [extensions |-> <<createImageExtension, createLinkExtension, createSpanExtension>>]

\* marked.use(config): the tokenizer appends the extensions of config to the
\* ones it holds, whether or not it holds them already
Use(registered, config) == registered \o config.extensions

(***************************************************************************)
(* The calls.  The library keeps no state between calls: a call runs from  *)
(* the idle state to its completion, and Return hands the result over.     *)
(* extensions is the tokenizer's list of registered extensions, filled     *)
(* when the entry module is loaded.                                        *)
(***************************************************************************)
Returned(v) == [threw |-> FALSE, value |-> v]
Thrown == [threw |-> TRUE, value |-> Undefined]

Init ==
    /\ op = "idle"
    /\ arg = <<>>
    /\ argAfter = <<>>
    /\ ret = Returned(Undefined)
    /\ extensions = Use(<<>>, getMarkedExtensions)

ParseInlineCall ==
    /\ op = "idle"
    /\ \E token \in InlineTokens, removeNewLine \in BOOLEAN :
        /\ op' = "parseInline"
        /\ arg' = <<token, removeNewLine>>
        /\ argAfter' = <<parseInlineEffect(token, removeNewLine), removeNewLine>>
        /\ ret' = IF parseInlineThrows(token, removeNewLine) THEN Thrown
                  ELSE Returned(ReturnArray(parseInline(token, removeNewLine)))
    /\ UNCHANGED extensions

ParseBlockCall ==
    /\ op = "idle"
    /\ \E token \in BlockTokens :
        /\ op' = "parseBlock"
        /\ arg' = <<token>>
        /\ argAfter' = <<parseBlockEffect(token)>>
        /\ ret' = IF parseBlockThrows(token) THEN Thrown ELSE Returned(parseBlock(token))
    /\ UNCHANGED extensions

ParseMarkdownContentCall ==
    /\ op = "idle"
    /\ \E tokens \in Documents :
        /\ op' = "parseMarkdownContent"
        /\ arg' = <<tokens>>
        /\ argAfter' = <<parseMarkdownContentEffect(tokens)>>
        /\ ret' = IF parseMarkdownContentThrows(tokens) THEN Thrown
                  ELSE Returned(parseMarkdownContent(tokens))
    /\ UNCHANGED extensions

\* markdownToProseMirror(markdown): tokens is what marked.lexer makes of the
\* markdown text with the registered extensions; the call registers nothing
MarkdownToProseMirrorCall ==
    /\ op = "idle"
    /\ \E tokens \in LexedDocuments :
        /\ op' = "markdownToProseMirror"
        /\ arg' = <<tokens>>
        /\ argAfter' = <<parseMarkdownContentEffect(tokens)>>
        /\ ret' = IF parseMarkdownContentThrows(tokens) THEN Thrown
                  ELSE Returned(parseMarkdownContent(tokens))
    /\ UNCHANGED extensions

\* the tokenizer asks the link extension where a link may start in src
LinkStartCall ==
    /\ op = "idle"
    /\ \E src \in SourceTexts :
        /\ op' = "linkStart"
        /\ arg' = <<src>>
        /\ argAfter' = <<src>>
        /\ ret' = Returned(ReturnIndex(LinkStart(src)))
    /\ UNCHANGED extensions

Return ==
    /\ op # "idle"
    /\ op' = "idle"
    /\ arg' = <<>>
    /\ argAfter' = <<>>
    /\ ret' = Returned(Undefined)
    /\ UNCHANGED extensions

Next ==
    \/ ParseInlineCall
    \/ ParseBlockCall
    \/ ParseMarkdownContentCall
    \/ MarkdownToProseMirrorCall
    \/ LinkStartCall
    \/ Return

Spec == Init /\ [][Next]_vars

(***************************************************************************)
(* Properties                                                              *)
(***************************************************************************)
IsNonIconImage(node) ==
    node # Null /\ node.type = "image" /\ Get(node.attrs, "role") # Str("icon")

RECURSIVE NoImageInParagraph(_)
NoImageInParagraph(node) ==
    IF "content" \notin DOMAIN node THEN TRUE
    ELSE /\ node.type = "paragraph" =>
                \A i \in 1..Len(node.content) : ~IsNonIconImage(node.content[i])
         /\ \A i \in 1..Len(node.content) : NoImageInParagraph(node.content[i])

\* C1: in every document parseMarkdownContent returns, no paragraph, wherever
\* it sits in the tree (root, blockquote, table cell), has a child image
\* whose role is not "icon".
C1_NoNonIconImageInParagraph ==
    (op = "parseMarkdownContent" /\ ~ret.threw) => NoImageInParagraph(ret.value)

Paragraph(nodes) == [type |-> "paragraph", content |-> nodes]

\* C2: a paragraph whose inline content is text nodes around exactly one
\* non-icon image comes back as [paragraph(before), image, paragraph(after)],
\* a side without nodes giving no paragraph.
C2_SplitAroundImage ==
    (op = "parseBlock" /\ arg[1].type = "paragraph") =>
        LET content == parseParagraph(arg[1])
        IN \A k \in 1..Len(content) :
            (/\ IsNonIconImage(content[k])
             /\ \A j \in (1..Len(content)) \ {k} : content[j].type = "text")
            => ret = Returned(ReturnArray(
                    (IF k > 1 THEN <<Paragraph(SubSeq(content, 1, k - 1))>> ELSE <<>>)
                    \o <<content[k]>>
                    \o (IF k < Len(content)
                        THEN <<Paragraph(SubSeq(content, k + 1, Len(content)))>> ELSE <<>>)))

C2_Witness ==
    /\ op = "parseBlock"
    /\ arg[1] = ParagraphToken(<<TextToken("a"), PlainImage, TextToken("b")>>)
    /\ ret.value.kind = "array"
    /\ Len(ret.value.nodes) = 3
    /\ ret.value.nodes[1] = Paragraph(<<[type |-> "text", text |-> "a"]>>)
    /\ ret.value.nodes[2].type = "image"

\* a strong, em or span token that wraps child tokens, and the mark it adds
IsWrapper(token) ==
    \/ token.type \in {"strong", "em"}
    \/ token.type = "span" /\ "tokens" \in DOMAIN token /\ Len(token.tokens) > 0

WrapperMark(token) ==
    IF token.type = "strong" THEN [type |-> "bold"]
    ELSE IF token.type = "em" THEN [type |-> "italic"]
    ELSE SpanMark(token)

\* The nodes of a token read from the outside in: enclosing lists the marks of
\* the wrappers around the token, the innermost wrapper first.
RECURSIVE NodesUnder(_, _, _)
NodesUnder(token, enclosing, removeNewLine) ==
    IF IsWrapper(token)
    THEN Flatten([i \in 1..Len(token.tokens) |->
            NodesUnder(token.tokens[i], <<WrapperMark(token)>> \o enclosing, removeNewLine)])
    ELSE LET own == parseInline(token, removeNewLine)
         IN [i \in 1..Len(own) |->
                IF enclosing = <<>> THEN own[i]
                ELSE Spread(own[i],
                        [marks |-> (IF "marks" \in DOMAIN own[i] THEN own[i].marks ELSE <<>>)
                                   \o enclosing])]

\* C3: a node's marks are its own marks followed by one mark per enclosing
\* strong, em or span wrapper, from the innermost wrapper to the outermost;
\* strong(em(x)) gives [italic, bold] and em(strong(x)) gives [bold, italic].
C3_MarksInnermostFirst ==
    (op = "parseInline" /\ ~ret.threw) =>
        /\ ret.value.nodes = NodesUnder(arg[1], <<>>, arg[2])
        /\ arg[1] = WrapToken("strong", <<WrapToken("em", <<TextToken("x")>>)>>)
            => ret.value.nodes = <<[type |-> "text", text |-> "x",
                              marks |-> <<[type |-> "italic"], [type |-> "bold"]>>]>>
        /\ arg[1] = WrapToken("em", <<WrapToken("strong", <<TextToken("x")>>)>>)
            => ret.value.nodes = <<[type |-> "text", text |-> "x",
                              marks |-> <<[type |-> "bold"], [type |-> "italic"]>>]>>

C3_Witness ==
    /\ op = "parseInline"
    /\ arg[1] = WrapToken("strong", <<WrapToken("em", <<TextToken("x")>>), CodespanToken("c")>>)
    /\ Len(ret.value.nodes) = 2
    /\ ret.value.nodes[1].marks = <<[type |-> "italic"], [type |-> "bold"]>>
    /\ ret.value.nodes[2].marks = <<[type |-> "code"], [type |-> "bold"]>>

\* the completion of the parser a tagged json, yaml or yml fence is given to
FenceParse(language, body) ==
    IF ToLowerCase(language) = "json" THEN JsonParse(body) ELSE YamlLoad(body)

\* C4: a tagged json, yaml or yml fence whose dedented body parses, to any
\* value (null, false, 0 and the empty string included), comes back as a
\* dataBlock with attrs exactly {tag, data: <parsed value>} and no content.
C4_ParsedFenceIsDataBlock ==
    (op = "parseBlock" /\ arg[1].type = "code") =>
        LET info == processCodeInfo(arg[1].lang)
            body == cleanCodeText(arg[1].text)
        IN (/\ Truthy(info.tag)
            /\ info.language \in {Str("json"), Str("yaml"), Str("yml")}
            /\ body # ""
            /\ ~FenceParse(info.language.s, body).threw)
           => ret = Returned(ReturnNode(
                    [type |-> "dataBlock",
                     attrs |-> [tag |-> info.tag,
                                data |-> FenceParse(info.language.s, body).value]]))

\* a tagged fence whose body the JSON or YAML parser rejects
ParseFails(token) ==
    LET info == processCodeInfo(token.lang)
        lang == ToLowerCase(Or(info.language, Str("")).s)
    IN /\ token.type = "code"
       /\ Truthy(info.tag)
       /\ lang \in {"json", "yaml", "yml"}
       /\ FenceParse(lang, cleanCodeText(token.text)).threw

FallbackCodeBlock(token) ==
    [type |-> "codeBlock",
     attrs |-> [language |-> processCodeInfo(token.lang).language,
                tag |-> processCodeInfo(token.lang).tag],
     content |-> <<[type |-> "text", text |-> cleanCodeText(token.text)]>>]

\* C5: a tagged fence whose body fails to parse comes back as a codeBlock with
\* attrs {language, tag} and one text child holding the dedented body; no
\* exception leaves parseBlock or parseMarkdownContent.
C5_FailedParseFallsBack ==
    /\ (op = "parseBlock" /\ ParseFails(arg[1]))
        => ret = Returned(ReturnNode(FallbackCodeBlock(arg[1])))
    /\ op = "parseMarkdownContent" =>
        \A i \in 1..Len(arg[1]) :
            ParseFails(arg[1][i]) =>
                ~ret.threw /\ FallbackCodeBlock(arg[1][i]) \in Range(ret.value.content)

C5_Witness ==
    /\ op = "parseBlock"
    /\ arg[1] = CodeToken("json:nav-links", "{bad")
    /\ ~ret.threw
    /\ ret.value.node.type = "codeBlock"
    /\ ret.value.node.attrs.tag = Str("nav-links")

\* the segment of the info string after its first colon, up to the next one
TagSegment(info) ==
    LET i == IndexOf(info, ":")
        rest == Substring(info, i + 1)
    IN IF i < 0 THEN ""
       ELSE IF IndexOf(rest, ":") < 0 THEN rest ELSE Slice(rest, 0, IndexOf(rest, ":"))

LanguageSegment(info) ==
    IF IndexOf(info, ":") < 0 THEN info ELSE Slice(info, 0, IndexOf(info, ":"))

ClassNames(token) ==
    LET c == Get(AttrsOf(token), "class")
    IN IF c.t = "string" THEN Range(Split(c.s, " ")) \ {""} ELSE {}

\* the mark of the node a link token lowers to
MarkOfLink == ret.value.nodes[1].marks[1]

\* C7: the mark of a link token is a button exactly when the href starts with
\* button: or the class list has the class name button; a class name that
\* only contains the letters (buttons, radiobutton) gives a link mark.
C7_ButtonIffPrefixOrClass ==
    (op = "parseInline" /\ arg[1].type = "link") =>
        /\ MarkOfLink.type \in {"button", "link"}
        /\ MarkOfLink.type = "button"
            <=> (StartsWith(arg[1].href, "button:") \/ "button" \in ClassNames(arg[1]))

\* C8: every attribute of a link token other than variant, download, target,
\* rel, size, icon and class is in the mark's attrs with its key and value.
C8_OtherLinkAttrsPassThrough ==
    (op = "parseInline" /\ arg[1].type = "link") =>
        \A k \in (DOMAIN AttrsOf(arg[1])) \ (KnownLinkKeys \cup {"class"}) :
            k \in DOMAIN MarkOfLink.attrs /\ MarkOfLink.attrs[k] = AttrsOf(arg[1])[k]

\* the role an href prefix gives: icon for an icon protocol, the text before
\* the first colon for the legacy role:path form, none otherwise
PrefixRole(href) ==
    IF \E lib \in IconLibraries : StartsWith(href, lib \o ":") /\ Len(href) > Len(lib) + 1
    THEN Str("icon")
    ELSE IF Includes(href, ":") /\ ~StartsWith(href, "http")
    THEN Str(Slice(href, 0, IndexOf(href, ":")))
    ELSE Undefined

C9_EmptyRoleWitness ==
    /\ op = "parseInline"
    /\ arg[1].type = "image"
    /\ arg[1].href = "lucide:home"
    /\ "role" \in DOMAIN arg[1].attrs
    /\ arg[1].attrs.role = Str("")
    /\ ret.value.nodes[1].attrs.role = Str("icon")

NamedLibraries == {"lucide", "heroicons", "phosphor", "tabler", "feather"}

IconPrefix(href) == Slice(href, 0, IndexOf(href, ":"))
IconRemainder(href) == Substring(href, IndexOf(href, ":") + 1)

IsGenericIconDocument(tokens) ==
    /\ Len(tokens) = 1
    /\ tokens[1].type = "paragraph"
    /\ Len(tokens[1].tokens) = 1
    /\ tokens[1].tokens[1].type = "image"
    /\ StartsWith(tokens[1].tokens[1].href, "icon:")
    /\ Len(tokens[1].tokens[1].href) > 5
    /\ AttrsOf(tokens[1].tokens[1]) = EmptyObj

InlineOrder(nodes) ==
    Flatten([i \in 1..Len(nodes) |->
                IF nodes[i].type = "paragraph" THEN nodes[i].content ELSE <<nodes[i]>>])

IsIconImage(node) == node.type = "image" /\ Get(node.attrs, "role") = Str("icon")

IsEmptyParagraph(node) ==
    "type" \in DOMAIN node /\ node.type = "paragraph" /\ node.content = <<>>

\* the token produced a non-empty block: parseBlock returned a node, or an
\* array with a node, that is not a paragraph without children
ProducesBlock(token) ==
    LET r == parseBlock(token)
    IN CASE r.kind = "null" -> FALSE
         [] r.kind = "node" -> ~IsEmptyParagraph(r.node)
         [] OTHER -> \E i \in 1..Len(r.nodes) : ~IsEmptyParagraph(r.nodes[i])

\* C13: no element of doc.content is a paragraph without children, and
\* doc.content has an element only if some top-level token produced a
\* non-empty block.
C13_NoEmptyParagraphAtRoot ==
    (op = "parseMarkdownContent" /\ ~ret.threw) =>
        /\ \A i \in 1..Len(ret.value.content) : ~IsEmptyParagraph(ret.value.content[i])
        /\ Len(ret.value.content) > 0 => \E i \in 1..Len(arg[1]) : ProducesBlock(arg[1][i])

\* a document of an empty paragraph, a comment and a heading: only the
\* heading gives a node
C13_Witness ==
    /\ op = "parseMarkdownContent"
    /\ Len(arg[1]) = 3
    /\ arg[1][1] = ParagraphToken(<<TextToken("")>>)
    /\ arg[1][2] = HtmlComment
    /\ arg[1][3].type = "heading"
    /\ Len(ret.value.content) = 1
    /\ ret.value.content[1].type = "heading"

NotEmptyParagraph(node) == ~IsEmptyParagraph(node)

\* the nodes one top-level token contributes: none for a null result, the
\* node of a single result, the nodes of an array result, childless
\* paragraphs left out
Contribution(token) ==
    LET r == parseBlock(token)
    IN CASE r.kind = "null" -> <<>>
         [] r.kind = "node" -> SelectSeq(<<r.node>>, NotEmptyParagraph)
         [] OTHER -> SelectSeq(r.nodes, NotEmptyParagraph)

RECURSIVE Contributions(_)
Contributions(tokens) ==
    IF tokens = <<>> THEN <<>>
    ELSE Contribution(Head(tokens)) \o Contributions(Tail(tokens))

\* C14: doc.content is the concatenation, in token order, of what each
\* top-level token contributes (arrays flattened one level, null results
\* skipped, childless paragraphs removed), nothing added, doubled or lost.
C14_ContentIsConcatenation ==
    (op = "parseMarkdownContent" /\ ~ret.threw) =>
        /\ ret.value.type = "doc"
        /\ ret.value.content = Contributions(arg[1])

\* a split paragraph between a rule and a heading: five nodes in token order
C14_Witness ==
    /\ op = "parseMarkdownContent"
    /\ Len(arg[1]) = 3
    /\ arg[1][1].type = "hr"
    /\ arg[1][2] = ParagraphToken(<<TextToken("a"), PlainImage, TextToken("b")>>)
    /\ arg[1][3].type = "heading"
    /\ Len(ret.value.content) = 5
    /\ ret.value.content[1].type = "divider"
    /\ ret.value.content[3].type = "image"
    /\ ret.value.content[5].type = "heading"

(***************************************************************************)
(* The closed sets of node and mark types                                  *)
(***************************************************************************)
NodeTypes ==
    {"doc", "paragraph", "heading", "text", "image", "divider", "bulletList", "orderedList",
     "listItem", "codeBlock", "dataBlock", "blockquote", "table", "tableRow", "tableCell",
     "eyebrowHeading", "inset_ref", "inset_placeholder"}

MarkTypes == {"bold", "italic", "code", "link", "button", "span"}

\* the node and the nodes below it; an entry of a content list that is not a
\* node (a null) has no type and is no node
RECURSIVE NodesOf(_)
NodesOf(node) ==
    IF "type" \notin DOMAIN node THEN {}
    ELSE {node} \cup
         (IF "content" \in DOMAIN node
          THEN UNION {NodesOf(node.content[i]) : i \in 1..Len(node.content)}
          ELSE {})

MarksOf(node) == IF "marks" \in DOMAIN node THEN Range(node.marks) ELSE {}

BlockKinds == {"paragraph", "heading", "blockquote", "hr", "code", "list", "table"}

\* C15: every node of a returned document has a type of the closed node set
\* and every mark a type of the closed mark set; a block token whose kind is
\* no block kind produces no node.
C15_ClosedNodeAndMarkTypes ==
    /\ (op = "parseMarkdownContent" /\ ~ret.threw) =>
            \A n \in NodesOf(ret.value) :
                /\ n.type \in NodeTypes
                /\ \A m \in MarksOf(n) : m.type \in MarkTypes
    /\ (op = "parseBlock" /\ arg[1].type \notin BlockKinds) => ret = Returned(ReturnNull)

\* a document with a marked paragraph, a list and an html comment
C15_Witness ==
    /\ op = "parseMarkdownContent"
    /\ arg[1] = <<MarkedParagraph, BulletList, HtmlComment>>
    /\ Len(ret.value.content) = 2
    /\ ret.value.content[1].content[1].marks[1].type = "span"
    /\ ret.value.content[2].type = "bulletList"

(***************************************************************************)
(* Inline tokens of other kinds                                            *)
(***************************************************************************)
InlineKinds == {"text", "strong", "em", "codespan", "html", "br", "span", "link", "image"}

\* C16: for an inline token of a kind outside the inline kinds parseInline
\* raises no error, with or without a text field on the token, and returns
\* one plain text node holding token.raw when raw is not empty, no node
\* otherwise.
C16_OtherKindsBecomeRawText ==
    (op = "parseInline" /\ arg[1].type \notin InlineKinds) =>
        /\ ~ret.threw
        /\ ret.value = ReturnArray(IF arg[1].raw # ""
                                   THEN <<[type |-> "text", text |-> arg[1].raw]>>
                                   ELSE <<>>)

(***************************************************************************)
(* Tables                                                                  *)
(***************************************************************************)
\* the rows of a table token, the header first
TokenRows(token) == <<token.header>> \o token.rows

\* C17: in every row of the table node, header and body alike, the cell of
\* column i has attrs.align equal to the alignment of column i, one of left,
\* center, right and null.
C17_CellAlignIsColumnAlign ==
    (op = "parseBlock" /\ arg[1].type = "table" /\ ~ret.threw) =>
        LET rows == ret.value.node.content
        IN /\ Len(rows) = Len(TokenRows(arg[1]))
           /\ \A r \in 1..Len(rows) : \A i \in 1..Len(rows[r].content) :
                /\ rows[r].content[i].attrs.align = arg[1].align[i]
                /\ rows[r].content[i].attrs.align
                        \in {Str("left"), Str("center"), Str("right"), Null}

\* a table of two columns, the first right-aligned and the second centred,
\* with one body row
C17_Witness ==
    /\ op = "parseBlock"
    /\ arg[1].type = "table"
    /\ arg[1].align = <<Str("right"), Str("center")>>
    /\ Len(arg[1].rows) = 1
    /\ ret.value.node.content[1].content[2].attrs.align = Str("center")
    /\ ret.value.node.content[2].content[1].attrs.align = Str("right")

TitleOrNull(token) == IF Truthy(token.title) THEN token.title ELSE Null

\* C20: for a link token without curly-brace attributes the mark's attrs are
\* exactly href and title (null when absent) when the href has no button:
\* prefix, and exactly href without the prefix, title and variant primary
\* when it has one; for every link token the variant key is present exactly
\* when the mark is a button.
C20_PlainLinkAttrs ==
    (op = "parseInline" /\ arg[1].type = "link" /\ ~ret.threw) =>
        /\ AttrsOf(arg[1]) = EmptyObj =>
            MarkOfLink.attrs =
                (IF StartsWith(arg[1].href, "button:")
                 THEN [href |-> Str(SubSeq(arg[1].href, 8, Len(arg[1].href))),
                       title |-> TitleOrNull(arg[1]),
                       variant |-> Str("primary")]
                 ELSE [href |-> Str(arg[1].href), title |-> TitleOrNull(arg[1])])
        /\ ("variant" \in DOMAIN MarkOfLink.attrs) <=> (MarkOfLink.type = "button")

\* a button: link without attributes
C20_Witness ==
    /\ op = "parseInline"
    /\ arg[1].type = "link"
    /\ arg[1].href = "button:https://e.com"
    /\ AttrsOf(arg[1]) = EmptyObj
    /\ MarkOfLink.type = "button"
    /\ MarkOfLink.attrs = [href |-> Str("https://e.com"), title |-> Null, variant |-> Str("primary")]

(***************************************************************************)
(* Image dimensions and absent attributes                                  *)
(***************************************************************************)
KnownImageKeys ==
    {"width", "height", "loading", "poster", "preview", "autoplay", "muted", "loop",
     "controls", "fit", "position", "color", "size", "class", "id"}

\* the value read as an integer the way parseInt(value, 10) reads it
IsIntegerValue(v) == v.t = "string" /\ ParseInt(v) # NaN

\* C21: for every image token, a width or height value that can be parsed as
\* an integer, 0 included, is in the node's attrs as that number and any other
\* value is kept as authored; a known attribute absent from the token's
\* attribute map is absent from the node's attrs.
C21_DimensionsAreIntegers ==
    (op = "parseInline" /\ arg[1].type = "image" /\ ~ret.threw) =>
        LET given == AttrsOf(arg[1])
            attrs == ret.value.nodes[1].attrs
        IN /\ \A k \in {"width", "height"} :
                k \in DOMAIN given =>
                    /\ k \in DOMAIN attrs
                    /\ attrs[k] = IF IsIntegerValue(given[k]) THEN ParseInt(given[k])
                                  ELSE given[k]
           /\ \A k \in KnownImageKeys : k \notin DOMAIN given => k \notin DOMAIN attrs

\* an image with width=800 and height=auto has come back with the number 800
\* and the string auto
C21_Witness ==
    /\ op = "parseInline" /\ arg[1].type = "image" /\ ~ret.threw
    /\ Get(AttrsOf(arg[1]), "width") = Str("800")
    /\ Get(AttrsOf(arg[1]), "height") = Str("auto")
    /\ ret.value.nodes[1].attrs["width"] = Num(800)
    /\ ret.value.nodes[1].attrs["height"] = Str("auto")
    /\ "loading" \notin DOMAIN ret.value.nodes[1].attrs

\* C21, for the values other than 0: a width or height value that parseInt
\* reads as a non-zero integer is in the node's attrs as that number, a value
\* it cannot read is kept as authored, and a known attribute absent from the
\* token's attribute map is absent from the node's attrs.
C21_NonZeroDimensionsAreIntegers ==
    (op = "parseInline" /\ arg[1].type = "image" /\ ~ret.threw) =>
        LET given == AttrsOf(arg[1])
            attrs == ret.value.nodes[1].attrs
        IN /\ \A k \in {"width", "height"} :
                (k \in DOMAIN given /\ ParseInt(given[k]) # Num(0)) =>
                    /\ k \in DOMAIN attrs
                    /\ attrs[k] = IF IsIntegerValue(given[k]) THEN ParseInt(given[k])
                                  ELSE given[k]
           /\ \A k \in KnownImageKeys : k \notin DOMAIN given => k \notin DOMAIN attrs

(***************************************************************************)
(* The input tokens after a call                                           *)
(***************************************************************************)
\* C22: after parseInline, parseBlock or parseMarkdownContent has run, every
\* field of every input token has the value it had before the call, the raw of
\* a text token under removeNewLine = true included.
C22_InputUnchanged == op # "idle" => argAfter = arg

\* C22, for the calls that leave removeNewLine at false: parseBlock,
\* parseMarkdownContent and parseInline(token, schema) leave every field of
\* every input token as it was.
C22_InputUnchangedWithoutRemoveNewLine ==
    (op \in {"parseBlock", "parseMarkdownContent"} \/ (op = "parseInline" /\ ~arg[2])) =>
        argAfter = arg

\* parseInline has run with removeNewLine = true on a strong token whose text
\* child has a line break in raw, and the child's raw has lost it
C22_Witness ==
    /\ op = "parseInline" /\ arg[2] /\ ~ret.threw
    /\ arg[1].type = "strong"
    /\ arg[1].tokens[1].type = "text"
    /\ arg[1].tokens[1].raw = "a\nb"
    /\ argAfter[1].tokens[1].raw = "ab"

(***************************************************************************)
(* Registration of the tokenizer extensions                                *)
(***************************************************************************)
ExtensionNames == [i \in 1..Len(extensions) |-> extensions[i].name]

\* C23: the image, link and span extensions are registered exactly once each,
\* before the first markdownToProseMirror call, and whatever calls have been
\* made since, in whatever order, the registered extensions are still those
\* three: none is registered twice.
C23_ExtensionsRegisteredOnce ==
    /\ Range(ExtensionNames) = {"image", "link", "span"}
    /\ \A i, j \in 1..Len(extensions) : ExtensionNames[i] = ExtensionNames[j] => i = j

\* markdownToProseMirror has run on a document and the three extensions are
\* the registered ones
C23_Witness ==
    /\ op = "markdownToProseMirror" /\ ~ret.threw
    /\ Len(arg[1]) = 2
    /\ ret.value.type = "doc"
    /\ ExtensionNames = <<"image", "link", "span">>

(***************************************************************************)
(* Dedenting of code bodies                                                *)
(***************************************************************************)
\* the white space the first line of the body starts with
FirstLinePrefix(text) == LeadingWhiteSpace(Split(text, "\n")[1])

\* every line of the body starts with the first line's prefix
SharesPrefix(text) ==
    \A i \in 1..Len(Split(text, "\n")) : StartsWith(Split(text, "\n")[i], FirstLinePrefix(text))

\* the body with the first line's prefix cut off every line, trimmed of the
\* surrounding white space
WithoutPrefix(text) ==
    LET lines == Split(text, "\n")
    IN Trim(Join([i \in 1..Len(lines) |-> Substring(lines[i], Len(FirstLinePrefix(text)))], "\n"))

\* C24: dedenting a dedented code body changes nothing, and a body whose
\* every line starts with the first line's leading white space comes back
\* with that prefix removed from every line.
C24_DedentIsIdempotent ==
    (op = "parseBlock" /\ arg[1].type = "code") =>
        LET t == arg[1].text
        IN /\ cleanCodeText(cleanCodeText(t)) = cleanCodeText(t)
           /\ SharesPrefix(t) => cleanCodeText(t) = WithoutPrefix(t)
           /\ ret.value.node.type = "codeBlock" =>
                ret.value.node.content[1].text = cleanCodeText(t)

\* a code body of two lines indented by four spaces has come back as the
\* text of a codeBlock with both lines at column 0
C24_Witness ==
    /\ op = "parseBlock" /\ arg[1].type = "code"
    /\ arg[1].text = "    a\n    a"
    /\ FirstLinePrefix(arg[1].text) = "    "
    /\ SharesPrefix(arg[1].text)
    /\ ret.value.node.type = "codeBlock"
    /\ ret.value.node.content[1].text = "a\na"

(***************************************************************************)
(* The array of a paragraph                                                *)
(***************************************************************************)
\* the array with each paragraph replaced by its content
Unwrapped(nodes) ==
    Flatten([i \in 1..Len(nodes) |->
                IF nodes[i].type = "paragraph" THEN nodes[i].content ELSE <<nodes[i]>>])

\* C25: for a paragraph token with inline content, the array parseBlock
\* returns has no paragraph with empty content and no two paragraphs side by
\* side, and with each paragraph replaced by its content it is the inline
\* node sequence of the token, in order, nothing lost or doubled.
C25_ParagraphsPartitionContent ==
    (op = "parseBlock" /\ arg[1].type = "paragraph" /\ ~ret.threw
        /\ Len(parseParagraph(arg[1])) > 0) =>
        /\ ret.value.kind = "array"
        /\ LET nodes == ret.value.nodes
           IN /\ \A i \in 1..Len(nodes) :
                    nodes[i].type = "paragraph" => nodes[i].content # <<>>
              /\ \A i \in 1..(Len(nodes) - 1) :
                    ~(nodes[i].type = "paragraph" /\ nodes[i + 1].type = "paragraph")
              /\ Unwrapped(nodes) = parseParagraph(arg[1])

\* an image followed by two texts has come back as the image and one
\* paragraph of the two text nodes
C25_Witness ==
    /\ op = "parseBlock" /\ ~ret.threw
    /\ arg[1] = ParagraphToken(<<PlainImage, TextToken("a"), TextToken("b")>>)
    /\ Len(ret.value.nodes) = 2
    /\ ret.value.nodes[1].type = "image"
    /\ ret.value.nodes[2].type = "paragraph"
    /\ Len(ret.value.nodes[2].content) = 2

(***************************************************************************)
(* The class list of a link mark                                           *)
(***************************************************************************)
\* the class names of a class string, in order
ClassList(class) ==
    LET IsName(n) == n # "" IN SelectSeq(Split(class, " "), IsName)

\* C26: the class of the mark a link token lowers to is the token's class
\* list without the class name button: every occurrence of button is removed,
\* every other class name is kept as it is, and the class key is left out
\* when no class name remains.
C26_ButtonClassStripped ==
    (op = "parseInline" /\ arg[1].type = "link"
        /\ Get(AttrsOf(arg[1]), "class").t = "string") =>
        LET NotButton(n) == n # "button"
            kept == SelectSeq(ClassList(AttrsOf(arg[1])["class"].s), NotButton)
        IN IF kept = <<>> THEN "class" \notin DOMAIN MarkOfLink.attrs
           ELSE /\ "class" \in DOMAIN MarkOfLink.attrs
                /\ ClassList(MarkOfLink.attrs["class"].s) = kept

\* C26, for class lists that name button at most once and have no class name
\* with button as one of its hyphen-separated words: the class of the mark is
\* the token's class list without button, and the class key is left out when
\* no class name remains.
C26_SingleButtonClassStripped ==
    (op = "parseInline" /\ arg[1].type = "link"
        /\ Get(AttrsOf(arg[1]), "class").t = "string"
        /\ AttrsOf(arg[1])["class"] \notin {Str("button button"), Str("big-button")}) =>
        LET NotButton(n) == n # "button"
            kept == SelectSeq(ClassList(AttrsOf(arg[1])["class"].s), NotButton)
        IN IF kept = <<>> THEN "class" \notin DOMAIN MarkOfLink.attrs
           ELSE /\ "class" \in DOMAIN MarkOfLink.attrs
                /\ ClassList(MarkOfLink.attrs["class"].s) = kept

\* a link with the class list "big button" has come back with the class "big"
C26_Witness ==
    /\ op = "parseInline" /\ arg[1].type = "link"
    /\ Get(AttrsOf(arg[1]), "class") = Str("big button")
    /\ MarkOfLink.attrs["class"] = Str("big")

(***************************************************************************)
(* Where a link may start                                                  *)
(***************************************************************************)
\* the 0-based places of src with a [ that no ! stands right before
LinkBrackets(src) ==
    {i \in 0..(Len(src) - 1) :
        /\ SubSeq(src, i + 1, i + 1) = "["
        /\ (i = 0 \/ SubSeq(src, i, i) # "!")}

\* C27: start(src) of the link extension is the index of the first [ of src
\* that is not immediately preceded by !, and -1 when src has none.
C27_LinkStartSkipsImages ==
    op = "linkStart" =>
        LET places == LinkBrackets(arg[1])
        IN ret.value.index =
            IF places = {} THEN -1 ELSE CHOOSE i \in places : \A j \in places : i <= j

\* C27, for a source text with at most one ![ before its first link bracket:
\* start(src) is the index of the first [ that is not immediately preceded
\* by !, and -1 when src has none.
C27_LinkStartSkipsOneImage ==
    (op = "linkStart" /\ Cardinality({i \in 1..(Len(arg[1]) - 1) : SubSeq(arg[1], i, i + 1) = "!["}) <= 1) =>
        LET places == LinkBrackets(arg[1])
        IN ret.value.index =
            IF places = {} THEN -1 ELSE CHOOSE i \in places : \A j \in places : i <= j

\* start has skipped the bracket of an image and found the one after it
C27_Witness ==
    /\ op = "linkStart"
    /\ arg[1] = "![a["
    /\ ret.value.index = 3

(***************************************************************************)
(* The entries of content arrays                                           *)
(***************************************************************************)
\* every entry of every content array under the node is a node with a type
RECURSIVE AllEntriesAreNodes(_)
AllEntriesAreNodes(node) ==
    "content" \in DOMAIN node =>
        \A i \in 1..Len(node.content) :
            /\ node.content[i] # Null
            /\ "type" \in DOMAIN node.content[i]
            /\ AllEntriesAreNodes(node.content[i])

\* C28: every entry of every content array of a document parseMarkdownContent
\* returns is a node with a type, never null, also inside a blockquote one of
\* whose child tokens is dropped.
C28_NoNullEntry ==
    (op \in {"parseMarkdownContent", "markdownToProseMirror"} /\ ~ret.threw) =>
        AllEntriesAreNodes(ret.value)

\* C28, for the root content: every entry of the content array of the
\* document itself is a node with a type, whatever tokens were dropped.
C28_NoNullEntryAtRoot ==
    (op \in {"parseMarkdownContent", "markdownToProseMirror"} /\ ~ret.threw) =>
        \A i \in 1..Len(ret.value.content) :
            ret.value.content[i] # Null /\ "type" \in DOMAIN ret.value.content[i]

\* a document of a comment, a rule and a comment has come back with the one
\* divider
C28_Witness ==
    /\ op = "parseMarkdownContent" /\ ~ret.threw
    /\ arg[1] = <<HtmlComment, [type |-> "hr", raw |-> "---"], HtmlComment>>
    /\ Len(ret.value.content) = 1
    /\ ret.value.content[1].type = "divider"

(***************************************************************************)
(* The text of text nodes                                                  *)
(***************************************************************************)
\* every text node under the node, the children of the kinds of skip left
\* aside, has a text that is not empty
RECURSIVE AllTextNonEmpty(_, _)
AllTextNonEmpty(node, skip) ==
    IF "type" \notin DOMAIN node THEN TRUE
    ELSE /\ node.type = "text" => node.text # ""
         /\ ("content" \in DOMAIN node /\ node.type \notin skip) =>
                \A i \in 1..Len(node.content) : AllTextNonEmpty(node.content[i], skip)

\* C29: every text node of a document parseMarkdownContent returns has a
\* text that is not empty, the text child of a codeBlock whose dedented body
\* is empty included.
C29_NoEmptyTextNode ==
    (op \in {"parseMarkdownContent", "markdownToProseMirror"} /\ ~ret.threw) =>
        AllTextNonEmpty(ret.value, {})

\* C29, outside code blocks: every text node of a returned document that is
\* not the child of a codeBlock has a text that is not empty.
C29_NoEmptyTextNodeOutsideCodeBlocks ==
    (op \in {"parseMarkdownContent", "markdownToProseMirror"} /\ ~ret.threw) =>
        AllTextNonEmpty(ret.value, {"codeBlock"})

\* a document of a paragraph whose only text token is empty and a heading
\* has come back with the heading and its text
C29_Witness ==
    /\ op = "parseMarkdownContent" /\ ~ret.threw
    /\ Len(arg[1]) = 2
    /\ arg[1][1] = ParagraphToken(<<TextToken("")>>)
    /\ arg[1][2].type = "heading"
    /\ Len(ret.value.content) = 1
    /\ ret.value.content[1].content[1].text = "Title"

(***************************************************************************)
(* When a fence is a dataBlock                                             *)
(***************************************************************************)
\* C30: a code token comes back as a dataBlock or a codeBlock, and as a
\* dataBlock only if its info string has a tag that is not empty, its
\* language is json, yaml or yml in any letter case, and its dedented body is
\* not empty.
C30_DataBlockOnlyIfTaggedDataLanguage ==
    (op = "parseBlock" /\ arg[1].type = "code") =>
        /\ ~ret.threw
        /\ ret.value.kind = "node"
        /\ ret.value.node.type \in {"dataBlock", "codeBlock"}
        /\ ret.value.node.type = "dataBlock" =>
            /\ TagSegment(arg[1].lang) # ""
            /\ ToLowerCase(LanguageSegment(arg[1].lang)) \in {"json", "yaml", "yml"}
            /\ cleanCodeText(arg[1].text) # ""

\* a fence JSON:nav with an indented JSON object has come back as a dataBlock
C30_Witness ==
    /\ op = "parseBlock" /\ arg[1].type = "code"
    /\ arg[1].lang = "JSON:nav"
    /\ arg[1].text = "  {\n    \"a\": 1\n  }"
    /\ ret.value.node.type = "dataBlock"
    /\ ret.value.node.attrs.tag = Str("nav")

====
